---- MODULE Spec2Model ----
(***************************************************************************)
(* Model of the handler-assignment pipeline of process_csv.py:             *)
(* process() reads the variable table, expands repeated rows               *)
(* (expand_rows), infers the register width of every row                   *)
(* (infer_type_size), sorts the expanded rows, assigns handler ids         *)
(* (assign_mb_handler), projects the handler of iteration 0 and the        *)
(* handler offset back to the base rows, numbers the base rows inside      *)
(* each handler (mbIdx) and writes the handler summary                     *)
(* (write_handler_summary).                                                *)
(*                                                                         *)
(* A table cell is a record [k, v, s]: k = "int" for a cell pandas reads    *)
(* as a number (v), "nan" for an empty cell, "str" for a cell it keeps as  *)
(* text (s, a sequence of one-character strings), "float" for a number     *)
(* with a fraction (v is twice the number: the model's floats are halves)  *)
(* and "bool" for a column of true/false (v is 1 or 0).                    *)
(* A type label is a sequence of one-character strings; the empty          *)
(* sequence is the empty cell, which pandas reads as NaN.                  *)
(***************************************************************************)
EXTENDS Integers, Sequences, FiniteSets, TLC

VARIABLES
    pc,               \* position of process(): the stage to run next
    csv_rows,         \* the rows of the input file, in file order
    df,               \* the base rows (process's df)
    expanded_df,      \* the expanded rows (process's expanded_df)
    idx,              \* assign_mb_handler: number of rows already scanned
    current_handler,  \* assign_mb_handler locals
    current_function,
    current_count,
    last_address,
    last_size,
    summary,          \* the (id, start, length) lines of mb_handler_summary.txt
    records,          \* the per-variable records written under configs/
    columns,          \* the optional columns the input file has
    run,              \* 1 for the first run of process(), 2 for the second
    first_df,         \* the enriched rows the first run returned
    first_summary,    \* the summary the first run wrote
    received,         \* the row set the last stage was handed, as that object
                      \* is after the stage
    csv_file,         \* edit.py: the rows of the CSV file on disk
    edit_call,        \* edit.py: the last call, its arguments and its outcome
    file_path,        \* _write_json_file: the target file on disk
    temp_path,        \* _write_json_file: the temporary file on disk
    attempt,          \* _write_json_file: the loop variable
    wpc,              \* _write_json_file: position in the function
    write_args        \* _write_json_file: force_overwrite and the data

vars == <<pc, csv_rows, df, expanded_df, idx, current_handler, current_function,
          current_count, last_address, last_size, summary, records, columns, run,
          first_df, first_summary, received, csv_file, edit_call, file_path,
          temp_path, attempt, wpc, write_args>>

edit_vars == <<csv_file, edit_call>>
write_vars == <<file_path, temp_path, attempt, wpc, write_args>>
\* what process() does not touch
tools == <<edit_vars, write_vars>>

-----------------------------------------------------------------------------
(* Bounds of the model *)

MaxRows == 2

-----------------------------------------------------------------------------
(* Cells and optional values *)

IntCell(n) == [k |-> "int", v |-> n, s |-> <<>>]
NaN == [k |-> "nan", v |-> 0, s |-> <<>>]
StrCell(s) == [k |-> "str", v |-> 0, s |-> s]
FloatCell(halves) == [k |-> "float", v |-> halves, s |-> <<>>]
BoolCell(b) == [k |-> "bool", v |-> IF b THEN 1 ELSE 0, s |-> <<>>]

\* pd.notna(cell)
notna(c) == c.k # "nan"

None == [some |-> FALSE, v |-> 0]
Some(x) == [some |-> TRUE, v |-> x]

Min(S) == CHOOSE x \in S : \A y \in S : x <= y
Max(S) == CHOOSE x \in S : \A y \in S : x >= y

\* a sort that puts the later of two rows with equal keys first
StableSort_later_first(s, less) ==
    LET rank == [i \in DOMAIN s |->
                    Cardinality({j \in DOMAIN s :
                        less[j, i] \/ (~less[i, j] /\ j > i)}) + 1]
    IN  [k \in DOMAIN s |-> s[CHOOSE i \in DOMAIN s : rank[i] = k]]

\* Stable sort of a sequence (np.lexsort, which pandas uses to sort on
\* several columns, keeps the order of rows that are equal on every key).
\* less[i, j] tells whether row i is smaller than row j on the keys; the rank
\* of row i counts the rows that are smaller, and the rows that are equal on
\* the keys and come earlier.
StableSort(s, less) ==
    LET rank == [i \in DOMAIN s |->
                    Cardinality({j \in DOMAIN s :
                        less[j, i] \/ (~less[i, j] /\ j < i)}) + 1]
    IN  [k \in DOMAIN s |-> s[CHOOSE i \in DOMAIN s : rank[i] = k]]

-----------------------------------------------------------------------------
(* infer_type_size *)

LowerChars == <<"a","b","c","d","e","f","g","h","i","j","k","l","m",
                "n","o","p","q","r","s","t","u","v","w","x","y","z">>
UpperChars == <<"A","B","C","D","E","F","G","H","I","J","K","L","M",
                "N","O","P","Q","R","S","T","U","V","W","X","Y","Z">>
DigitChars == <<"0","1","2","3","4","5","6","7","8","9">>
Whitespace == {" ", "\t"}

IsDigit(c) == \E i \in DOMAIN DigitChars : DigitChars[i] = c
DigitValue(c) == (CHOOSE i \in DOMAIN DigitChars : DigitChars[i] = c) - 1

\* str.upper() on one character
UpperChar(c) ==
    IF \E i \in DOMAIN LowerChars : LowerChars[i] = c
    THEN UpperChars[CHOOSE i \in DOMAIN LowerChars : LowerChars[i] = c]
    ELSE c

upper(s) == [i \in DOMAIN s |-> UpperChar(s[i])]

\* str.strip()
RECURSIVE strip(_)
strip(s) ==
    IF s = <<>> THEN s
    ELSE IF Head(s) \in Whitespace THEN strip(Tail(s))
    ELSE IF s[Len(s)] \in Whitespace THEN strip(SubSeq(s, 1, Len(s) - 1))
    ELSE s

\* the match of re.search(r"(\d+)$", s): the longest run of digits that ends s
RECURSIVE TrailingDigits(_)
TrailingDigits(s) ==
    IF s = <<>> \/ ~IsDigit(s[Len(s)]) THEN <<>>
    ELSE TrailingDigits(SubSeq(s, 1, Len(s) - 1)) \o <<s[Len(s)]>>

\* int() of a run of digits
RECURSIVE DigitsToInt(_)
DigitsToInt(d) ==
    IF d = <<>> THEN 0
    ELSE 10 * DigitsToInt(SubSeq(d, 1, Len(d) - 1)) + DigitValue(d[Len(d)])

\* str.lower() on one character
LowerChar(c) ==
    IF \E i \in DOMAIN UpperChars : UpperChars[i] = c
    THEN LowerChars[CHOOSE i \in DOMAIN UpperChars : UpperChars[i] = c]
    ELSE c

lower(s) == [i \in DOMAIN s |-> LowerChar(s[i])]

\* does int(s) accept the text: optional sign and digits, blanks around them
IsIntText(s) ==
    LET t == strip(s)
        d == IF t # <<>> /\ Head(t) \in {"+", "-"} THEN Tail(t) ELSE t
    IN  d # <<>> /\ \A i \in DOMAIN d : IsDigit(d[i])

\* int(s) of a text that int() accepts
IntOfText(s) ==
    LET t == strip(s)
    IN  IF Head(t) = "-" THEN 0 - DigitsToInt(Tail(t))
        ELSE IF Head(t) = "+" THEN DigitsToInt(Tail(t))
        ELSE DigitsToInt(t)

\* int(x) of the float x = halves / 2: the fraction is cut off
Trunc(halves) == IF halves >= 0 THEN halves \div 2 ELSE 0 - ((0 - halves) \div 2)

\* does int(cell) succeed, and its value
IsIntCell(c) == c.k \in {"int", "float", "bool"} \/ (c.k = "str" /\ IsIntText(c.s))
IntOfCell(c) ==
    IF c.k \in {"int", "bool"} THEN c.v
    ELSE IF c.k = "float" THEN Trunc(c.v)
    ELSE IntOfText(c.s)

\* normalize_mqtt_name's " ".join(s.split()) on a text that strip() has trimmed
RECURSIVE Collapse(_)
Collapse(s) ==
    IF s = <<>> THEN <<>>
    ELSE IF Head(s) \notin Whitespace THEN <<Head(s)>> \o Collapse(Tail(s))
    ELSE IF Len(s) > 1 /\ s[2] \in Whitespace THEN Collapse(Tail(s))
    ELSE <<" ">> \o Collapse(Tail(s))

normalize_mqtt_name(s) == Collapse(strip(s))

L_UINT16 == <<"U","I","N","T","1","6">>
L_INT16 == <<"I","N","T","1","6">>
L_UINT == <<"U","I","N","T">>
L_UINT32 == <<"U","I","N","T","3","2">>
L_INT32 == <<"I","N","T","3","2">>
L_FLOAT == <<"F","L","O","A","T">>

\* infer_type_size that compares the label as it is written
infer_type_size_as_written(t) ==
    IF t = <<>> THEN 32
    ELSE LET s == strip(t)
             m == TrailingDigits(s)
         IN  IF s \in {L_UINT16, L_INT16, L_UINT} THEN 16
             ELSE IF s \in {L_UINT32, L_INT32, L_FLOAT} THEN 32
             ELSE IF m # <<>> THEN DigitsToInt(m)
             ELSE 32

type_map ==
    [s \in {L_UINT16, L_INT16, L_UINT, L_UINT32, L_INT32, L_FLOAT} |->
        IF s \in {L_UINT16, L_INT16, L_UINT} THEN 16 ELSE 32]

infer_type_size(t) ==
    IF t = <<>> THEN 32
    ELSE LET s == upper(strip(t))
             m == TrailingDigits(s)
         IN  IF s \in DOMAIN type_map THEN type_map[s]
             ELSE IF m # <<>> THEN DigitsToInt(m)
             ELSE 32

-----------------------------------------------------------------------------
(* Program constants *)

\* the capacity of a handler, in 16-bit registers
Capacity == 124
\* the bits of one register
RegisterBits == 16
\* mbTypeSize of every row of a table without an mbType column
NoTypeColumnSize == 16

-----------------------------------------------------------------------------
(* expand_rows *)

\* int(cell) if pd.notna(cell) else default, inside try/except: a text that
\* int() rejects gives the default
IntOrDefault(c, default) == IF IsIntCell(c) THEN IntOfCell(c) ELSE default

\* expand_rows with the iteration counted from 1 when the address is shifted
ExpandRow_shifted(row) ==
    LET multiplier == IntOrDefault(row.multiplier, 1)
        address_offset == IntOrDefault(row.addressOffset, 0)
        base_register == IF notna(row.mbRegister) THEN IntOfCell(row.mbRegister) ELSE 0
        copy(i, reg) ==
            [base_index |-> row.base_index, iteration |-> i, mbRegister |-> reg,
             mbFunctionCode |-> row.mbFunctionCode, mbType |-> row.mbType,
             mbTypeSize |-> 0, mbHandler |-> 0]
    IN  IF multiplier > 1
        THEN [k \in 1..multiplier |->
                 copy(k - 1, IntCell(base_register + k * address_offset))]
        ELSE <<copy(0, row.mbRegister)>>

\* the expanded copies of one base row, in iteration order
ExpandRow(row) ==
    LET multiplier == IntOrDefault(row.multiplier, 1)
        address_offset == IntOrDefault(row.addressOffset, 0)
        base_register == IF notna(row.mbRegister) THEN IntOfCell(row.mbRegister) ELSE 0
        copy(i, reg) ==
            [base_index |-> row.base_index, iteration |-> i, mbRegister |-> reg,
             mbFunctionCode |-> row.mbFunctionCode, mbType |-> row.mbType,
             mbTypeSize |-> 0, mbHandler |-> 0]
    IN  IF multiplier > 1
        THEN [k \in 1..multiplier |->
                 copy(k - 1, IntCell(base_register + (k - 1) * address_offset))]
        ELSE <<copy(0, row.mbRegister)>>

RECURSIVE ExpandFrom(_, _)
ExpandFrom(rows, k) ==
    IF k > Len(rows) THEN <<>>
    ELSE ExpandRow(rows[k]) \o ExpandFrom(rows, k + 1)

expand_rows(rows) == ExpandFrom(rows, 1)

\* int(row.get("mbRegister", 0)) is outside the try: a register that is a text
\* int() rejects raises
ExpandRaises(rows) ==
    \E k \in DOMAIN rows : notna(rows[k].mbRegister) /\ ~IsIntCell(rows[k].mbRegister)

-----------------------------------------------------------------------------
(* assign_mb_handler *)

\* the registers of a row counted with a started register as a whole one
RegLen_rounded_up(size) == (size + RegisterBits - 1) \div RegisterBits

\* the number of 16-bit registers the loop counts for a row of `size` bits
RegLen(size) == size \div RegisterBits

\* continue_same without the comparison of the function codes
continue_same_any_function(func, addr, size) ==
    /\ current_function.some
    /\ current_count + RegLen(size) < Capacity
    /\ last_address.some
    /\ addr = last_address.v + RegLen(last_size.v)

\* continue_same without the comparison of the addresses
continue_same_any_address(func, addr, size) ==
    /\ current_function.some
    /\ func = current_function.v
    /\ current_count + RegLen(size) < Capacity
    /\ last_address.some

\* lines 136-146: may the row continue the current handler?
continue_same(func, addr, size) ==
    /\ current_function.some
    /\ func = current_function.v
    /\ current_count + RegLen(size) < Capacity
    /\ last_address.some
    /\ addr = last_address.v + RegLen(last_size.v)

\* current_handler is not reset: the scan goes on from the last id it gave
current_handler_kept == current_handler

\* the scan numbers the handlers from 0 instead of 1
current_handler_zero_based == 0 - 1

\* the value current_handler is set to before the scan
current_handler_init == 0

-----------------------------------------------------------------------------
(* process: projection and indexing *)

\* the sort with the larger function code first
LessFuncReg_function_descending(a, b) ==
    \/ a.mbFunctionCode > b.mbFunctionCode
    \/ (a.mbFunctionCode = b.mbFunctionCode /\ a.mbRegister.v < b.mbRegister.v)

\* the sort with the register as its first key and the function code as its second
LessFuncReg_register_first(a, b) ==
    \/ a.mbRegister.v < b.mbRegister.v
    \/ (a.mbRegister.v = b.mbRegister.v /\ a.mbFunctionCode < b.mbFunctionCode)

\* sort_values(by=["mbFunctionCode", "mbRegister"])
LessFuncReg(a, b) ==
    \/ a.mbFunctionCode < b.mbFunctionCode
    \/ (a.mbFunctionCode = b.mbFunctionCode /\ a.mbRegister.v < b.mbRegister.v)

\* the handler of the expanded row (base, iteration), None when there is none
HandlerAt(exp, base, iteration) ==
    LET S == {i \in DOMAIN exp :
                 exp[i].base_index = base /\ exp[i].iteration = iteration}
    IN  IF S = {} THEN None ELSE Some(exp[CHOOSE i \in S : TRUE].mbHandler)

\* the offset taken the other way round, iter0 - iter1
HandlerOffset_reversed(exp, base) ==
    LET h0 == HandlerAt(exp, base, 0)
        h1 == HandlerAt(exp, base, 1)
    IN  IF h0.some /\ h1.some THEN h0.v - h1.v ELSE 0

\* lines 297-299: iter1 - iter0 on the common base rows, 0 for the others
HandlerOffset(exp, base) ==
    LET h0 == HandlerAt(exp, base, 0)
        h1 == HandlerAt(exp, base, 1)
    IN  IF h0.some /\ h1.some THEN h1.v - h0.v ELSE 0

\* order of two register cells in a sort: NaN comes last
CellLess(a, b) == notna(a) /\ (~notna(b) \/ IntOfCell(a) < IntOfCell(b))

\* the sort with the later of two rows at one address first
LessHandlerReg_later_first(a, b) ==
    \/ a.mbHandler < b.mbHandler
    \/ /\ a.mbHandler = b.mbHandler
       /\ \/ CellLess(a.mbRegister, b.mbRegister)
          \/ (~CellLess(b.mbRegister, a.mbRegister) /\ a.base_index > b.base_index)

\* sort_values(by=["mbHandler", "mbRegister", "__row"])
LessHandlerReg(a, b) ==
    \/ a.mbHandler < b.mbHandler
    \/ /\ a.mbHandler = b.mbHandler
       /\ \/ CellLess(a.mbRegister, b.mbRegister)
          \/ (~CellLess(b.mbRegister, a.mbRegister) /\ a.base_index < b.base_index)

\* a running counter that is not reset at a handler boundary
CumCount_running(sorted, k) == k

\* groupby("mbHandler").cumcount() + 1 at position k of the sorted rows
CumCount(sorted, k) ==
    Cardinality({j \in 1..(k - 1) : sorted[j].mbHandler = sorted[k].mbHandler}) + 1

\* lines 302-305: mbIdx of every base row, the rows back in their own order
AssignIdx(rows) ==
    LET sorted_df == StableSort(rows, [i, j \in DOMAIN rows |->
                                          LessHandlerReg(rows[i], rows[j])])
        pos(i) == CHOOSE k \in DOMAIN sorted_df :
                      sorted_df[k].base_index = rows[i].base_index
    IN  [i \in DOMAIN rows |-> [rows[i] EXCEPT !.mbIdx = CumCount(sorted_df, pos(i))]]

-----------------------------------------------------------------------------
(* write_handler_summary *)

\* the numbers of S in ascending order
SortedSeq(S) ==
    [k \in 1..Cardinality(S) |->
        CHOOSE x \in S : Cardinality({y \in S : y < x}) = k - 1]

\* the entry with its start taken over all rows, not over the handler's
HandlerEntry_start_of_all(exp, h) ==
    LET members == {i \in DOMAIN exp : exp[i].mbHandler = h}
        start_addr == Min({exp[i].mbRegister.v : i \in DOMAIN exp})
        end_addr == Max({exp[i].mbRegister.v + RegLen(exp[i].mbTypeSize) - 1 :
                            i \in members})
    IN  <<h, start_addr, end_addr - start_addr + 1>>

\* lines 181-185: the (id, start, length) of one handler
HandlerEntry(exp, h) ==
    LET members == {i \in DOMAIN exp : exp[i].mbHandler = h}
        start_addr == Min({exp[i].mbRegister.v : i \in members})
        end_addr == Max({exp[i].mbRegister.v + RegLen(exp[i].mbTypeSize) - 1 :
                            i \in members})
    IN  <<h, start_addr, end_addr - start_addr + 1>>

write_handler_summary(exp) ==
    LET ids == SortedSeq({exp[i].mbHandler : i \in DOMAIN exp})
        handlers == [k \in DOMAIN ids |-> HandlerEntry(exp, ids[k])]
    IN  [count |-> Len(handlers), lines |-> handlers]

NoSummary == [count |-> 0, lines |-> <<>>]

-----------------------------------------------------------------------------
(* Inputs *)

L_UINT8 == <<"U","I","N","T","8">>
L_X1968 == <<"X","1","9","6","8">>
L_X1984 == <<"X","1","9","8","4">>
L_X2000 == <<"X","2","0","0","0">>

\* the texts of mbUsed that drop a row
UnusedTexts == {<<"0">>, <<"0", ".", "0">>, <<"f", "a", "l", "s", "e">>}

CsvRow(reg, func, type, mult, off, used) ==
    [mbRegister |-> reg, mbFunctionCode |-> func, mbType |-> type,
     multiplier |-> mult, addressOffset |-> off, mbUsed |-> used]

\* all tables of at most MaxRows rows over a set of rows
Tables(D) == UNION {[1..n -> D] : n \in 0..MaxRows}

\* 16- and 32-bit variables of two function codes, single or repeated twice
Rows ==
    {CsvRow(IntCell(r), f, t, IntCell(m), IntCell(o), IntCell(1)) :
        r \in {0, 1, 2}, f \in {3, 4}, t \in {L_UINT16, L_UINT32},
        m \in {1, 2}, o \in {0, 1}}

\* variables with every kind of multiplier and several address offsets
RepeatRows ==
    {CsvRow(IntCell(r), 3, L_UINT16, IntCell(m), IntCell(o), IntCell(1)) :
        r \in {0, 100}, m \in {-1, 0, 1, 2, 3}, o \in {0, 1, 5}}

\* variables whose width is no multiple of a register, or more than a handler holds
WideRows ==
    {CsvRow(IntCell(r), 3, t, IntCell(1), IntCell(0), IntCell(1)) :
        r \in {0, 123}, t \in {L_UINT16, L_UINT8, L_X1968, L_X2000}}

\* variables that fill a handler to its capacity: 123 and 124 registers wide
CapacityRows ==
    {CsvRow(IntCell(r), 3, t, IntCell(1), IntCell(0), IntCell(1)) :
        r \in {0, 123, 124}, t \in {L_UINT16, L_X1968, L_X1984}}

\* variables that share function code and address
TieRows ==
    {CsvRow(IntCell(r), f, L_UINT16, IntCell(m), IntCell(o), IntCell(1)) :
        r \in {0, 1}, f \in {3, 4}, m \in {1, 2}, o \in {0, 1}}

\* a row of a table that has the mqttPayload column
WithPayload(row, payload) == row @@ [mqttPayload |-> payload]

\* used and unused variables, repeated or not, of a table whose mbUsed column
\* holds numbers
NumberFlagRows ==
    {WithPayload(CsvRow(IntCell(r), 3, L_UINT16, IntCell(m), IntCell(1), u), p) :
        r \in {0, 5}, m \in {1, 3}, u \in {IntCell(1), IntCell(0), NaN},
        p \in {StrCell(<<"p">>), NaN}}

\* the same of a table whose mbUsed column holds text
TextFlagRows ==
    {WithPayload(CsvRow(IntCell(r), 3, L_UINT16, IntCell(m), IntCell(1), u), p) :
        r \in {0, 5}, m \in {1, 3},
        u \in {StrCell(<<"1">>), StrCell(<<"0">>), StrCell(<<"t","r","u","e">>),
               StrCell(<<" ","F","a","l","s","e">>)},
        p \in {StrCell(<<"p">>), NaN}}

\* type labels in several spellings: the six of type_map, labels that end in
\* digits, labels that do not, and the empty cell
TypeLabels ==
    {<<"u","i","n","t","1","6">>, <<" ","I","n","t","1","6"," ">>, <<"U","i","n","t">>,
     <<"u","i","n","t","3","2">>, <<"I","n","t","3","2">>, <<"F","l","o","a","t">>,
     <<"i","n","t","6","4">>, <<"x","8">>, <<"X","0">>, <<"B","O","O","L">>,
     <<"r","e","a","l">>, <<>>}

\* one-register-apart variables of every type label
TypeRows ==
    {CsvRow(IntCell(r), 3, t, IntCell(1), IntCell(0), IntCell(1)) :
        r \in {0, 1}, t \in TypeLabels}

\* variables of a table that has no mbType column
NoTypeRows ==
    {CsvRow(IntCell(r), f, <<>>, IntCell(m), IntCell(1), IntCell(1)) :
        r \in {0, 1, 2}, f \in {3, 4}, m \in {1, 2}}

\* a row of a table that has the mbScaling and mqttName columns; its
\* addressOffset may be a float
RecordRow(used, fields) ==
    CsvRow(IntCell(0), 3, L_UINT16, IntCell(2), fields[3], used)
        @@ [mbScaling |-> fields[1], mqttName |-> fields[2]]

\* mbScaling, mqttName and addressOffset: a whole number, a name and an offset
\* with a fraction; a scaling with a fraction and no name; no scaling and a
\* blank name
RecordFields ==
    {<<IntCell(2), StrCell(<<" ","a"," "," ","b">>), FloatCell(3)>>,
     <<FloatCell(3), NaN, IntCell(1)>>,
     <<NaN, StrCell(<<" ">>), IntCell(0)>>}

\* the mbUsed column holds text, numbers, or true and false only
TextFlags ==
    {StrCell(<<"t","r","u","e">>), StrCell(<<"1">>), StrCell(<<"y","e","s">>),
     StrCell(<<" ","F","A","L","S","E">>)}
NumberFlags == {IntCell(1), IntCell(2), IntCell(0), NaN}
BoolFlags == {BoolCell(TRUE), BoolCell(FALSE)}

RecordRows(flags) == {RecordRow(u, f) : u \in flags, f \in RecordFields}

\* a number, an empty cell, or a text that is no number
MalformedCells(n) == {IntCell(n), NaN, StrCell(<<"x">>)}

\* variables whose register, multiplier or addressOffset may be malformed
MalformedRows ==
    {CsvRow(r, 3, L_UINT16, m, o, IntCell(1)) :
        r \in MalformedCells(5), m \in MalformedCells(2), o \in MalformedCells(1)}

\* narrow and 16-bit variables, single or repeated 125 times, at one address
\* or at addresses one apart
ManyRows ==
    {CsvRow(IntCell(0), 3, t, IntCell(m), IntCell(o), IntCell(1)) :
        t \in {L_UINT8, L_UINT16}, m \in {1, 125}, o \in {0, 1}}

\* the mbUsed column holds whole numbers, numbers with a point and empty
\* cells, or text
WholeFlags == {IntCell(1), IntCell(0)}
PointFlags == {FloatCell(2), FloatCell(0), NaN}
WordFlags ==
    {StrCell(<<"t","r","u","e">>), StrCell(<<"0">>), StrCell(<<"0",".","0">>),
     StrCell(<<"F","A","L","S","E"," ">>)}

\* adjoining 16-bit variables, single or repeated, with a flag
FlaggedRows(flags) ==
    {CsvRow(IntCell(r), 3, L_UINT16, IntCell(m), IntCell(1), u) :
        r \in {0, 1}, m \in {1, 2}, u \in flags}

-----------------------------------------------------------------------------
(* The pipeline *)

\* no call of edit.py is made
NoCall == [op |-> "none"]

\* edit.py and _write_json_file are not used
ToolsIdle ==
    /\ csv_file = <<>>
    /\ edit_call = NoCall
    /\ file_path = "absent"
    /\ temp_path = "absent"
    /\ attempt = 0
    /\ wpc = "idle"
    /\ write_args = [force_overwrite |-> FALSE, serializable |-> TRUE]

\* the run starts on a table of the rows D whose optional columns are cols
InitTable(D, cols) ==
    /\ csv_rows \in Tables(D)
    /\ pc = "read"
    /\ df = <<>>
    /\ expanded_df = <<>>
    /\ idx = 0
    /\ current_handler = 0
    /\ current_function = None
    /\ current_count = 0
    /\ last_address = None
    /\ last_size = None
    /\ summary = NoSummary
    /\ records = <<>>
    /\ columns = cols
    /\ run = 1
    /\ first_df = <<>>
    /\ first_summary = NoSummary
    /\ received = <<>>
    /\ ToolsIdle

InitWith(D) == InitTable(D, {"mbType", "mbUsed"})

Init == InitWith(Rows)

\* _is_used that takes an empty flag for a cleared one
is_used_empty_unused(val) ==
    IF ~notna(val) THEN FALSE
    ELSE IF val.k \in {"int", "float"} THEN IntOfCell(val) # 0
    ELSE IF val.k = "bool" THEN val.v = 1
    ELSE lower(strip(val.s)) \notin UnusedTexts

\* _is_used that takes every number for a set flag
is_used_text_only(val) ==
    IF ~notna(val) THEN TRUE
    ELSE IF val.k \in {"int", "float"} THEN TRUE
    ELSE IF val.k = "bool" THEN val.v = 1
    ELSE lower(strip(val.s)) \notin UnusedTexts

\* process, lines 260-266
is_used(val) ==
    IF ~notna(val) THEN TRUE
    ELSE IF val.k \in {"int", "float"} THEN IntOfCell(val) # 0
    ELSE IF val.k = "bool" THEN val.v = 1
    ELSE lower(strip(val.s)) \notin UnusedTexts

RowIsUsed(row) == is_used(row.mbUsed)

\* the columns a table may have besides the six of CsvRow
ExtraColumns == {"mqttPayload", "mbScaling", "mqttName"}

scan == <<idx, current_handler, current_function, current_count, last_address, last_size>>

\* process, lines 253-269: the table is read, the rows that are not used are
\* dropped and every row left gets its __base_index
Read ==
    /\ pc = "read"
    /\ LET kept == IF "mbUsed" \in columns
                   THEN SelectSeq(csv_rows, RowIsUsed)
                   ELSE csv_rows
       IN  df' = [i \in DOMAIN kept |->
                     [base_index |-> i - 1,
                      mbRegister |-> kept[i].mbRegister,
                      mbFunctionCode |-> kept[i].mbFunctionCode,
                      mbType |-> kept[i].mbType,
                      multiplier |-> kept[i].multiplier,
                      addressOffset |-> kept[i].addressOffset,
                      mbUsed |-> kept[i].mbUsed,
                      mbTypeSize |-> 0, mbHandler |-> 0, mbHandlerOffset |-> 0,
                      mbIdx |-> 0]
                     @@ [c \in columns \cap ExtraColumns |-> kept[i][c]]]
    /\ pc' = "expand"
    /\ UNCHANGED received
    /\ UNCHANGED <<csv_rows, columns, expanded_df, scan, summary, records, run,
                 first_df, first_summary, tools>>

\* process, line 272
Expand ==
    /\ pc = "expand"
    /\ IF ExpandRaises(df)
       THEN pc' = "error" /\ UNCHANGED expanded_df
       ELSE pc' = "annotate" /\ expanded_df' = expand_rows(df)
    /\ received' = df
    /\ UNCHANGED <<csv_rows, columns, df, scan, summary, records, run,
                 first_df, first_summary, tools>>

\* process, lines 275-281: the width of every expanded row (16 when the table
\* has no mbType column); astype(int) raises on a register that is no number,
\* and an empty table has no mbRegister column
Annotate ==
    /\ pc = "annotate"
    /\ IF expanded_df = <<>>
          \/ \E i \in DOMAIN expanded_df : ~IsIntCell(expanded_df[i].mbRegister)
       THEN pc' = "error" /\ UNCHANGED expanded_df
       ELSE /\ pc' = "sort"
            /\ expanded_df' = [i \in DOMAIN expanded_df |->
                   [expanded_df[i] EXCEPT
                       !.mbTypeSize = IF "mbType" \in columns
                                      THEN infer_type_size(expanded_df[i].mbType)
                                      ELSE NoTypeColumnSize,
                       !.mbRegister = IntCell(IntOfCell(expanded_df[i].mbRegister))]]
    /\ received' = expanded_df'
    /\ UNCHANGED <<csv_rows, columns, df, scan, summary, records, run,
                 first_df, first_summary, tools>>

\* process, lines 284-286
Sort ==
    /\ pc = "sort"
    /\ expanded_df' = StableSort(expanded_df,
                          [i, j \in DOMAIN expanded_df |->
                              LessFuncReg(expanded_df[i], expanded_df[j])])
    /\ pc' = "assign"
    /\ received' = expanded_df
    /\ UNCHANGED <<csv_rows, columns, df, scan, summary, records, run,
                 first_df, first_summary, tools>>

\* assign_mb_handler, lines 123-128
AssignBegin ==
    /\ pc = "assign"
    /\ expanded_df' = [i \in DOMAIN expanded_df |->
                          [expanded_df[i] EXCEPT !.mbHandler = 0]]
    /\ idx' = 0
    /\ current_handler' = current_handler_init
    /\ current_function' = None
    /\ current_count' = 0
    /\ last_address' = None
    /\ last_size' = None
    /\ pc' = "scan"
    /\ received' = expanded_df'
    /\ UNCHANGED <<csv_rows, columns, df, summary, records, run,
                 first_df, first_summary, tools>>

\* assign_mb_handler, lines 130-157: one iteration of the loop
AssignStep ==
    /\ pc = "scan"
    /\ idx < Len(expanded_df)
    /\ LET row == expanded_df[idx + 1]
           func == row.mbFunctionCode
           addr == row.mbRegister.v
           size == row.mbTypeSize
           cont == continue_same(func, addr, size)
           handler == IF cont THEN current_handler ELSE current_handler + 1
       IN  /\ current_handler' = handler
           /\ current_function' = IF cont THEN current_function ELSE Some(func)
           /\ current_count' = (IF cont THEN current_count ELSE 0) + RegLen(size)
           /\ expanded_df' = [expanded_df EXCEPT ![idx + 1].mbHandler = handler]
           /\ last_address' = Some(addr)
           /\ last_size' = Some(size)
    /\ idx' = idx + 1
    /\ pc' = IF idx + 1 = Len(expanded_df) THEN "project" ELSE "scan"
    /\ received' = expanded_df'
    /\ UNCHANGED <<csv_rows, columns, df, summary, records, run,
                 first_df, first_summary, tools>>

\* process, lines 292-299
Project ==
    /\ pc = "project"
    /\ df' = [i \in DOMAIN df |->
                 [df[i] EXCEPT
                     !.mbHandler = HandlerAt(expanded_df, df[i].base_index, 0).v,
                     !.mbHandlerOffset = HandlerOffset(expanded_df, df[i].base_index)]]
    /\ pc' = "index"
    /\ received' = df'
    /\ UNCHANGED <<csv_rows, columns, expanded_df, scan, summary, records, run,
                 first_df, first_summary, tools>>

\* process, lines 302-311
Index ==
    /\ pc = "index"
    /\ df' = [i \in DOMAIN df |->
                 [AssignIdx(df)[i] EXCEPT
                     !.mbTypeSize = IF "mbType" \in columns
                                    THEN infer_type_size(df[i].mbType)
                                    ELSE NoTypeColumnSize]]
    /\ pc' = "drop"
    /\ received' = df
    /\ UNCHANGED <<csv_rows, columns, expanded_df, scan, summary, records, run,
                 first_df, first_summary, tools>>

\* process, lines 313-319: mqttPayload leaves the base rows. __base_index
\* leaves them too; the model keeps base_index, the position of the row, and
\* OutputColumns leaves it out of what is written
DropColumns ==
    /\ pc = "drop"
    /\ df' = [i \in DOMAIN df |->
                 [c \in DOMAIN df[i] \ {"mqttPayload"} |-> df[i][c]]]
    /\ pc' = "summary"
    /\ received' = df
    /\ UNCHANGED <<csv_rows, columns, expanded_df, scan, summary, records, run,
                 first_df, first_summary, tools>>

\* process, line 328
Summary ==
    /\ pc = "summary"
    /\ summary' = write_handler_summary(expanded_df)
    /\ pc' = "serialize"
    /\ received' = expanded_df
    /\ UNCHANGED <<csv_rows, columns, df, expanded_df, scan, records, run,
                 first_df, first_summary, tools>>

\* the values of a JSON record
JBool(b) == [t |-> "bool", v |-> IF b THEN 1 ELSE 0, s |-> <<>>]
JInt(n) == [t |-> "int", v |-> n, s |-> <<>>]
JFloat(halves) == [t |-> "float", v |-> halves, s |-> <<>>]
JStr(s) == [t |-> "str", v |-> 0, s |-> s]

\* process, lines 338-345
\* no field is written as a float
float_fields_none == {}

float_fields ==
    {"mqttLowerLimit", "mqttUpperLimit", "mbScaling", "mbOffset", "mqttScaling",
     "mqttOffset"}

\* the columns of the base rows that process() writes
OutputColumns(row) ==
    (DOMAIN row \ {"base_index", "mbType", "mbUsed"})
        \cup (columns \cap {"mbType", "mbUsed"})

\* row[col] as iterrows() hands it to the loop of lines 346-383
ColumnCell(row, col) ==
    IF col = "mbType"
        THEN IF row.mbType = <<>> THEN NaN ELSE StrCell(row.mbType)
    ELSE IF col \in {"mbFunctionCode", "mbTypeSize", "mbHandler", "mbHandlerOffset",
                     "mbIdx"}
        THEN IntCell(row[col])
    ELSE row[col]

\* process, lines 348-351: the cells that leave no key in the record
Skipped(val) == ~notna(val) \/ (val.k = "str" /\ strip(val.s) = <<>>)

\* process, lines 376-383
NumberOrText(col, val) ==
    IF val.k = "str" THEN JStr(val.s)
    ELSE IF col \in float_fields
        THEN JFloat(IF val.k = "float" THEN val.v ELSE 2 * val.v)
    ELSE JInt(IntOfCell(val))

\* process, lines 356-383: the JSON value of a cell that is not skipped
JsonValue(col, val) ==
    IF col = "mbUsed" /\ val.k = "str"
           /\ lower(strip(val.s)) \in {<<"t","r","u","e">>, <<"f","a","l","s","e">>}
        THEN JBool(lower(strip(val.s)) = <<"t","r","u","e">>)
    ELSE IF col = "mbUsed" /\ val.k = "str" /\ IsIntText(lower(strip(val.s)))
        THEN JBool(IntOfText(lower(strip(val.s))) # 0)
    ELSE IF col = "mbUsed" /\ val.k # "str"
        THEN JBool(IntOfCell(val) # 0)
    ELSE IF col = "mqttName" /\ val.k = "str"
        THEN JStr(normalize_mqtt_name(val.s))
    ELSE NumberOrText(col, val)

\* process, lines 334-386: the record of one base row
Record(row) ==
    LET kept == {c \in OutputColumns(row) : ~Skipped(ColumnCell(row, c))}
    IN  [c \in kept |-> JsonValue(c, ColumnCell(row, c))]

\* process, lines 334-386
Serialize ==
    /\ pc = "serialize"
    /\ records' = [i \in DOMAIN df |-> Record(df[i])]
    /\ pc' = "done"
    /\ received' = df
    /\ UNCHANGED <<csv_rows, columns, df, expanded_df, scan, summary, run,
                 first_df, first_summary, tools>>

Next ==
    \/ Read
    \/ Expand
    \/ Annotate
    \/ Sort
    \/ AssignBegin
    \/ AssignStep
    \/ Project
    \/ Index
    \/ DropColumns
    \/ Summary
    \/ Serialize

Spec == Init /\ [][Next]_vars

\* the pipeline on tables of repeated variables
InitExpand == InitWith(RepeatRows)
SpecExpand == InitExpand /\ [][Next]_vars

\* the pipeline on tables of odd and oversized widths
InitWidths == InitWith(WideRows)
SpecWidths == InitWidths /\ [][Next]_vars

\* the pipeline on tables that reach the capacity of a handler
InitCapacity == InitWith(CapacityRows)
SpecCapacity == InitCapacity /\ [][Next]_vars

\* process() is called a second time on the same file
Rerun ==
    /\ pc = "done"
    /\ run = 1
    /\ run' = 2
    /\ first_df' = df
    /\ first_summary' = summary
    /\ df' = <<>>
    /\ expanded_df' = <<>>
    /\ summary' = NoSummary
    /\ records' = <<>>
    /\ received' = <<>>
    /\ pc' = "read"
    /\ UNCHANGED <<csv_rows, columns, scan, tools>>

NextRerun ==
    \/ Next
    \/ Rerun

\* the pipeline on tables with unused rows and an mqttPayload column
InitUsed ==
    \/ InitTable(NumberFlagRows, {"mbType", "mbUsed", "mqttPayload"})
    \/ InitTable(TextFlagRows, {"mbType", "mbUsed", "mqttPayload"})
SpecUsed == InitUsed /\ [][Next]_vars

\* the pipeline on tables of every type label and on tables without mbType
InitTypes ==
    \/ InitTable(TypeRows, {"mbType", "mbUsed"})
    \/ InitTable(NoTypeRows, {"mbUsed"})
SpecTypes == InitTypes /\ [][Next]_vars

\* the pipeline on tables whose records have flags, floats and names
InitRecords ==
    \E flags \in {TextFlags, NumberFlags, BoolFlags} :
        InitTable(RecordRows(flags), {"mbType", "mbUsed", "mbScaling", "mqttName"})
SpecRecords == InitRecords /\ [][Next]_vars

\* the pipeline on tables with malformed numbers
InitMalformed == InitWith(MalformedRows)
SpecMalformed == InitMalformed /\ [][Next]_vars

\* the pipeline on tables in which one variable is repeated more often than a
\* handler holds
InitMany ==
    /\ InitWith(ManyRows)
    /\ Cardinality({i \in DOMAIN csv_rows : csv_rows[i].multiplier.v > 1}) <= 1
SpecMany == InitMany /\ [][Next]_vars

\* a row whose mbUsed is 0, 0.0 or false
FlagCleared(row) ==
    LET u == row.mbUsed
    IN  \/ u \in {IntCell(0), FloatCell(0), BoolCell(FALSE)}
        \/ /\ u.k = "str"
           /\ lower(strip(u.s)) \in {<<"0">>, <<"0",".","0">>, <<"f","a","l","s","e">>}

FlagSet(row) == ~FlagCleared(row)

\* process() is called a second time, on the file without the rows whose
\* mbUsed is 0, 0.0 or false
RerunPruned ==
    /\ pc = "done"
    /\ run = 1
    /\ run' = 2
    /\ csv_rows' = SelectSeq(csv_rows, FlagSet)
    /\ first_df' = df
    /\ first_summary' = summary
    /\ df' = <<>>
    /\ expanded_df' = <<>>
    /\ summary' = NoSummary
    /\ records' = <<>>
    /\ received' = <<>>
    /\ pc' = "read"
    /\ UNCHANGED <<columns, scan, tools>>

NextPruned ==
    \/ Next
    \/ RerunPruned

\* the pipeline on tables with flagged rows, and again without the unused ones
InitPruned ==
    \E flags \in {WholeFlags, PointFlags, WordFlags, BoolFlags} :
        InitWith(FlaggedRows(flags))
SpecPruned == InitPruned /\ [][NextPruned]_vars

InitRerun == InitWith(TieRows)
SpecRerun == InitRerun /\ [][NextRerun]_vars

-----------------------------------------------------------------------------
(* edit.py: apply_set_field and apply_add_row on a CSV file.                *)
(* The file is a header with an identifier column and one value column,    *)
(* and a sequence of rows [id, val] of raw text as it stands on disk.      *)

MaxFileRows == 2

pipeline == <<pc, csv_rows, df, expanded_df, scan, summary, records, columns,
              run, first_df, first_summary, received>>

PipelineIdle ==
    /\ pc = "idle"
    /\ csv_rows = <<>>
    /\ df = <<>>
    /\ expanded_df = <<>>
    /\ idx = 0
    /\ current_handler = 0
    /\ current_function = None
    /\ current_count = 0
    /\ last_address = None
    /\ last_size = None
    /\ summary = NoSummary
    /\ records = <<>>
    /\ columns = {}
    /\ run = 1
    /\ first_df = <<>>
    /\ first_summary = NoSummary
    /\ received = <<>>

\* identifiers and values as they can stand in the file or in a call
FileIds == {<<" ", "a">>, <<"b">>}
FileValues == {<<"x">>, <<" ", "x">>}
FileRows == [id : FileIds, val : FileValues]
CallIds == FileIds \cup {<<"a">>, <<>>}
Files == UNION {[1..n -> FileRows] : n \in 0..MaxFileRows}

\* read_csv_rows: every value of every row stripped
read_csv_rows(file) ==
    [i \in DOMAIN file |-> [id |-> strip(file[i].id), val |-> strip(file[i].val)]]

\* write_csv_rows: the rows as they are held
write_csv_rows(rows) == rows

PlannedChange(action, row_id, field, before, after) ==
    [action |-> action, row_id |-> row_id, field |-> field,
     before |-> before, after |-> after]

\* the loop of apply_set_field over the rows: the changes planned, in row order
set_planned(rows, row_id, value) ==
    LET F[i \in 0..Len(rows)] ==
            IF i = 0 THEN <<>>
            ELSE IF rows[i].id = row_id /\ rows[i].val # value
                 THEN Append(F[i - 1],
                             PlannedChange("set", row_id, "val", rows[i].val, value))
                 ELSE F[i - 1]
    IN  F[Len(rows)]

\* the loop of apply_set_field over the rows: the rows after it
set_rows(rows, row_id, value) ==
    [i \in DOMAIN rows |->
        IF rows[i].id = row_id /\ rows[i].val # value
        THEN [rows[i] EXCEPT !.val = value]
        ELSE rows[i]]

set_matched(rows, row_id) == Cardinality({i \in DOMAIN rows : rows[i].id = row_id})

\* apply_set_field writes whatever the mode
set_writes_always(apply, planned) == planned # <<>>

\* apply_set_field writes when applying and something is planned
set_writes(apply, planned) == apply /\ planned # <<>>

\* the call before this one, when it was a call in plan mode
Last(call) ==
    IF call.op # "none" /\ ~call.apply
    THEN [f \in DOMAIN call \ {"prev"} |-> call[f]]
    ELSE NoCall

Called(op, row_id, field_known, value, apply, outcome, planned) ==
    [op |-> op, row_id |-> row_id, field_known |-> field_known, value |-> value,
     apply |-> apply, before |-> csv_file, outcome |-> outcome,
     planned |-> planned, prev |-> Last(edit_call)]

\* _atomic_write: the temporary file replaces the CSV file, or the write
\* fails and the CSV file stays
apply_set_field(row_id, field_known, value, apply) ==
    LET rows == read_csv_rows(csv_file)
        planned == set_planned(rows, row_id, value)
    IN  IF ~field_known \/ set_matched(rows, row_id) = 0
        THEN /\ edit_call' = Called("set", row_id, field_known, value, apply,
                                    "ValueError", <<>>)
             /\ UNCHANGED csv_file
        ELSE IF set_writes(apply, planned)
        THEN \/ /\ csv_file' = write_csv_rows(set_rows(rows, row_id, value))
                /\ edit_call' = Called("set", row_id, field_known, value, apply,
                                       "ok", planned)
             \/ /\ edit_call' = Called("set", row_id, field_known, value, apply,
                                       "OSError", <<>>)
                /\ UNCHANGED csv_file
        ELSE /\ edit_call' = Called("set", row_id, field_known, value, apply,
                                    "ok", planned)
             /\ UNCHANGED csv_file

SetField ==
    /\ \E row_id \in CallIds, field_known \in BOOLEAN, value \in FileValues,
          apply \in BOOLEAN :
            apply_set_field(row_id, field_known, value, apply)
    /\ UNCHANGED <<pipeline, write_vars>>

apply_add_row(id_val, value, apply) ==
    LET rows == read_csv_rows(csv_file)
        existing == {rows[i].id : i \in DOMAIN rows}
        planned == <<PlannedChange("add", id_val, "*", <<>>, <<"(row added)">>)>>
    IN  IF id_val = <<>> \/ id_val \in existing
        THEN /\ edit_call' = Called("add", id_val, TRUE, value, apply,
                                    "ValueError", <<>>)
             /\ UNCHANGED csv_file
        ELSE IF apply
        THEN /\ Len(csv_file) < MaxFileRows
             /\ \/ /\ csv_file' = write_csv_rows(
                                      Append(rows, [id |-> id_val, val |-> value]))
                   /\ edit_call' = Called("add", id_val, TRUE, value, apply,
                                          "ok", planned)
                \/ /\ edit_call' = Called("add", id_val, TRUE, value, apply,
                                          "OSError", <<>>)
                   /\ UNCHANGED csv_file
        ELSE /\ edit_call' = Called("add", id_val, TRUE, value, apply,
                                    "ok", planned)
             /\ UNCHANGED csv_file

AddRow ==
    /\ \E id_val \in CallIds, value \in FileValues, apply \in BOOLEAN :
            apply_add_row(id_val, value, apply)
    /\ UNCHANGED <<pipeline, write_vars>>

NextEdit ==
    \/ SetField
    \/ AddRow

InitEdit ==
    /\ PipelineIdle
    /\ csv_file \in Files
    /\ edit_call = NoCall
    /\ file_path = "absent"
    /\ temp_path = "absent"
    /\ attempt = 0
    /\ wpc = "idle"
    /\ write_args = [force_overwrite |-> FALSE, serializable |-> TRUE]

SpecEdit == InitEdit /\ [][NextEdit]_vars

-----------------------------------------------------------------------------
(* exporter.py: _write_json_file.                                           *)
(* file_path and temp_path hold the content of the target and of the       *)
(* temporary file, "absent" when there is no file; attempt is the loop     *)
(* variable; wpc is the position in the function.                           *)

max_retries == 3

Contents == {"d1", "d2"}

\* the target exists and may not be overwritten: never
refuses_never(target, force_overwrite) == FALSE

\* the target exists and may not be overwritten
refuses(target, force_overwrite) == target # "absent" /\ ~force_overwrite

\* except (OSError, IOError): on the last attempt the temporary file, left in
\* state temp, is removed and the error raised; before it, the loop goes on
OSErrorRaised(temp) ==
    IF attempt = max_retries - 1
    THEN /\ temp_path' = "absent"
         /\ wpc' = "raised"
         /\ UNCHANGED attempt
    ELSE /\ temp_path' = temp
         /\ attempt' = attempt + 1
         /\ wpc' = "write"

\* the call: the loop is entered
WriteBegin ==
    /\ wpc = "idle"
    /\ attempt' = 0
    /\ wpc' = "write"
    /\ UNCHANGED <<file_path, temp_path, write_args, pipeline, edit_vars>>

\* json.dumps and temp_path.write_text: data that cannot be serialized raises
\* an error that is not an OSError; the write succeeds, or fails with the
\* temporary file untouched or half written
WriteTemp ==
    /\ wpc = "write"
    /\ IF ~write_args.serializable
       THEN /\ temp_path' = "absent"
            /\ wpc' = "raised"
            /\ UNCHANGED attempt
       ELSE \/ /\ temp_path' = write_args.data
               /\ wpc' = "check"
               /\ UNCHANGED attempt
            \/ \E temp \in {temp_path, "partial"} : OSErrorRaised(temp)
    /\ UNCHANGED <<file_path, write_args, pipeline, edit_vars>>

\* if file_path.exists(): FileExistsError unless force_overwrite, else the
\* target is unlinked, which can fail
CheckTarget ==
    /\ wpc = "check"
    /\ IF file_path = "absent"
       THEN /\ wpc' = "replace"
            /\ UNCHANGED <<file_path, temp_path, attempt>>
       ELSE IF refuses(file_path, write_args.force_overwrite)
       THEN /\ OSErrorRaised(temp_path)
            /\ UNCHANGED file_path
       ELSE \/ /\ file_path' = "absent"
               /\ wpc' = "replace"
               /\ UNCHANGED <<temp_path, attempt>>
            \/ /\ OSErrorRaised(temp_path)
               /\ UNCHANGED file_path
    /\ UNCHANGED <<write_args, pipeline, edit_vars>>

\* temp_path.replace(file_path): the temporary file becomes the target, or
\* the rename fails
Replace ==
    /\ wpc = "replace"
    /\ \/ /\ file_path' = temp_path
          /\ temp_path' = "absent"
          /\ wpc' = "returned"
          /\ UNCHANGED attempt
       \/ /\ OSErrorRaised(temp_path)
          /\ UNCHANGED file_path
    /\ UNCHANGED <<write_args, pipeline, edit_vars>>

NextWrite ==
    \/ WriteBegin
    \/ WriteTemp
    \/ CheckTarget
    \/ Replace

\* a call with any arguments, on a target that exists or not, with or
\* without a temporary file left by an earlier process of the same id
InitWrite ==
    /\ PipelineIdle
    /\ csv_file = <<>>
    /\ edit_call = NoCall
    /\ file_path \in {"absent", "old"}
    /\ temp_path \in {"absent", "stale"}
    /\ attempt = 0
    /\ wpc = "idle"
    /\ \E force_overwrite \in BOOLEAN, serializable \in BOOLEAN, data \in Contents :
          write_args = [force_overwrite |-> force_overwrite,
                        serializable |-> serializable,
                        data |-> data,
                        target |-> file_path]

SpecWrite == InitWrite /\ [][NextWrite]_vars

-----------------------------------------------------------------------------
(* Properties *)

\* assign_mb_handler has returned
Assigned == pc \in {"project", "index", "drop", "summary", "serialize", "done"}

\* the base rows carry mbHandler and mbHandlerOffset
Projected == pc \in {"index", "drop", "summary", "serialize", "done"}

\* the base rows carry mbIdx
Indexed == pc \in {"drop", "summary", "serialize", "done"}

\* width_units of the specification: ceil(bit_width / 16)
WidthUnits(size) == (size + RegisterBits - 1) \div RegisterBits

HandlerIds == {expanded_df[i].mbHandler : i \in DOMAIN expanded_df}

LessAddress(a, b) == a.mbRegister.v < b.mbRegister.v

\* the expanded members of handler h, sorted by register address
HandlerMembers(h) ==
    LET InHandler(r) == r.mbHandler = h
        m == SelectSeq(expanded_df, InHandler)
    IN  StableSort(m, [i, j \in DOMAIN m |-> LessAddress(m[i], m[j])])

RECURSIVE SumWidthUnits(_)
SumWidthUnits(rows) ==
    IF rows = <<>> THEN 0
    ELSE WidthUnits(Head(rows).mbTypeSize) + SumWidthUnits(Tail(rows))

\* the handler id of the expanded row (base, iteration)
H(base, iteration) == HandlerAt(expanded_df, base, iteration).v

\* C1: after assign_mb_handler, all expanded rows of one handler have the same
\* function code.
C1_HandlerHomogeneity ==
    Assigned =>
        \A i, j \in DOMAIN expanded_df :
            expanded_df[i].mbHandler = expanded_df[j].mbHandler
                => expanded_df[i].mbFunctionCode = expanded_df[j].mbFunctionCode

\* a handler of two rows, and two rows with adjoining addresses that only the
\* function code keeps apart
C1_Witness ==
    /\ pc = "done"
    /\ \E i, j \in DOMAIN expanded_df :
          i # j /\ expanded_df[i].mbHandler = expanded_df[j].mbHandler
    /\ \E i \in 1..(Len(expanded_df) - 1) :
          /\ expanded_df[i].mbFunctionCode # expanded_df[i + 1].mbFunctionCode
          /\ expanded_df[i + 1].mbRegister.v =
                expanded_df[i].mbRegister.v + RegLen(expanded_df[i].mbTypeSize)

\* C2: the members of a handler, sorted by address, follow one another at a
\* distance of ceil(bit_width / 16) registers.
C2_Contiguity ==
    Assigned =>
        \A h \in HandlerIds :
            LET m == HandlerMembers(h)
            IN  \A i \in 1..(Len(m) - 1) :
                    m[i + 1].mbRegister.v =
                        m[i].mbRegister.v + WidthUnits(m[i].mbTypeSize)

\* C3: the members of a handler occupy at most 124 registers, each counted as
\* ceil(bit_width / 16).
C3_Capacity ==
    Assigned =>
        \A h \in HandlerIds : SumWidthUnits(HandlerMembers(h)) <= Capacity

\* C4: the mbIdx values of the n base rows of a handler are exactly 1..n, each
\* given once.
C4_IndexContiguity ==
    Indexed =>
        \A h \in {df[i].mbHandler : i \in DOMAIN df} :
            LET members == {i \in DOMAIN df : df[i].mbHandler = h}
            IN  /\ {df[i].mbIdx : i \in members} = 1..Cardinality(members)
                /\ \A i, j \in members : i # j => df[i].mbIdx # df[j].mbIdx

\* a handler that is the mbHandler of two base rows
C4_Witness ==
    /\ pc = "done"
    /\ \E i, j \in DOMAIN df : i # j /\ df[i].mbHandler = df[j].mbHandler

\* the width the current handler holds: the registers of the rows placed in it
OccupiedWidth ==
    LET InCurrent(r) == r.mbHandler = current_handler
    IN  SumWidthUnits(SelectSeq(SubSeq(expanded_df, 1, idx), InCurrent))

\* the continuation rule as the specification states it, for the row scanned next
ClaimedContinue ==
    LET row == expanded_df[idx + 1]
    IN  /\ idx > 0
        /\ expanded_df[idx].mbFunctionCode = row.mbFunctionCode
        /\ OccupiedWidth + WidthUnits(row.mbTypeSize) <= Capacity
        /\ row.mbRegister.v =
              expanded_df[idx].mbRegister.v + WidthUnits(expanded_df[idx].mbTypeSize)

\* C5: a scanned row stays in the current handler exactly when a handler
\* exists, the function codes agree, the occupied width plus the row's width
\* is at most 124 and the row adjoins the row placed before it.
C5_ContinuationRule ==
    [][AssignStep => ((current_handler' = current_handler) <=> ClaimedContinue)]_vars

\* C6: mbHandler is the handler of the row's iteration 0, and mbHandlerOffset is
\* handler(iteration 1) - handler(iteration 0) when there is an iteration 1 and
\* 0 when there is none, as for every multiplier <= 1.
C6_Projection ==
    Projected =>
        \A i \in DOMAIN df :
            LET e0 == {k \in DOMAIN expanded_df :
                          /\ expanded_df[k].base_index = df[i].base_index
                          /\ expanded_df[k].iteration = 0}
                e1 == {k \in DOMAIN expanded_df :
                          /\ expanded_df[k].base_index = df[i].base_index
                          /\ expanded_df[k].iteration = 1}
            IN  /\ Cardinality(e0) = 1
                /\ \A k \in e0 : df[i].mbHandler = expanded_df[k].mbHandler
                /\ \A k0 \in e0 : \A k1 \in e1 :
                      df[i].mbHandlerOffset =
                          expanded_df[k1].mbHandler - expanded_df[k0].mbHandler
                /\ (e1 = {} => df[i].mbHandlerOffset = 0)
                /\ (df[i].multiplier.v <= 1 => df[i].mbHandlerOffset = 0)

\* a repeated row whose two first copies lie in different handlers, beside a
\* row that is not repeated
C6_Witness ==
    /\ pc = "done"
    /\ \E i \in DOMAIN df : df[i].mbHandlerOffset # 0
    /\ \E i \in DOMAIN df : df[i].multiplier.v <= 1

\* the table of A and B: function 3, UINT16, multiplier 2, addressOffset 1,
\* registers 0 and 1
ExampleAB ==
    <<CsvRow(IntCell(0), 3, L_UINT16, IntCell(2), IntCell(1), IntCell(1)),
      CsvRow(IntCell(1), 3, L_UINT16, IntCell(2), IntCell(1), IntCell(1))>>

\* C7 as stated: the iteration-0 rows of A and B share a handler, their
\* iteration-1 rows share another one, and both offsets are the difference of
\* the two handler ids.
C7_OffsetExample_AsStated ==
    (csv_rows = ExampleAB /\ pc = "done") =>
        /\ H(0, 0) = H(1, 0)
        /\ H(0, 1) = H(1, 1)
        /\ H(0, 0) # H(0, 1)
        /\ df[1].mbHandlerOffset = H(0, 1) - H(0, 0)
        /\ df[2].mbHandlerOffset = H(0, 1) - H(0, 0)

\* C7, amended: the two copies of A (addresses 0 and 1) share handler 1, the two
\* copies of B (addresses 1 and 2) share handler 2, and mbHandlerOffset of A
\* and of B is 0, the difference of the handlers of its own two copies.
C7_OffsetExample ==
    (csv_rows = ExampleAB /\ pc = "done") =>
        /\ H(0, 0) = 1 /\ H(0, 1) = 1
        /\ H(1, 0) = 2 /\ H(1, 1) = 2
        /\ df[1].mbHandlerOffset = 0
        /\ df[2].mbHandlerOffset = 0

\* the run on the table of A and B has finished
C7_Witness == csv_rows = ExampleAB /\ pc = "done"

\* the number of expanded rows of a row with multiplier m: max(1, m)
Copies(m) == IF m > 1 THEN m ELSE 1

\* C8: expand_rows returns, in source order, max(1, multiplier) rows per input
\* row, iterations 0..m-1 at register + iteration * addressOffset when m > 1,
\* and one row at iteration 0 with its address unchanged when m <= 1.
C8_Expansion ==
    pc = "annotate" =>
        /\ \A k \in DOMAIN expanded_df :
              \E i \in DOMAIN df : df[i].base_index = expanded_df[k].base_index
        /\ \A i \in DOMAIN df :
              LET m == df[i].multiplier.v
                  E == {k \in DOMAIN expanded_df :
                           expanded_df[k].base_index = df[i].base_index}
              IN  /\ Cardinality(E) = Copies(m)
                  /\ {expanded_df[k].iteration : k \in E} = 0..(Copies(m) - 1)
                  /\ \A k \in E :
                        expanded_df[k].mbRegister =
                            IF m > 1
                            THEN IntCell(df[i].mbRegister.v
                                    + expanded_df[k].iteration * df[i].addressOffset.v)
                            ELSE df[i].mbRegister
        /\ \A a, b \in DOMAIN expanded_df :
              a < b =>
                  \/ expanded_df[a].base_index < expanded_df[b].base_index
                  \/ /\ expanded_df[a].base_index = expanded_df[b].base_index
                     /\ expanded_df[a].iteration < expanded_df[b].iteration

\* a row of multiplier 3, addressOffset 5 and register 100 expanded to 100, 105
\* and 110, beside a row of multiplier <= 0
C8_Witness ==
    /\ pc = "annotate"
    /\ \E i \in DOMAIN df :
          /\ df[i].multiplier.v = 3 /\ df[i].addressOffset.v = 5
          /\ df[i].mbRegister.v = 100
          /\ \A it \in 0..2 : \E k \in DOMAIN expanded_df :
                /\ expanded_df[k].base_index = df[i].base_index
                /\ expanded_df[k].iteration = it
                /\ expanded_df[k].mbRegister.v = 100 + 5 * it
    /\ \E i \in DOMAIN df : df[i].multiplier.v <= 0

\* the summary entry of handler h according to the specification
ClaimedEntry(h) ==
    LET members == {i \in DOMAIN expanded_df : expanded_df[i].mbHandler = h}
        start == Min({expanded_df[i].mbRegister.v : i \in members})
        end == Max({expanded_df[i].mbRegister.v
                        + WidthUnits(expanded_df[i].mbTypeSize) - 1 : i \in members})
    IN  <<h, start, end - start + 1>>

\* C9: the summary lists every handler once, in ascending id, as (id, start,
\* length) with start the lowest member address and length reaching to the
\* highest address + width_units - 1, and its total is the number of handlers.
C9_Summary ==
    pc = "done" =>
        /\ summary.count = Cardinality(HandlerIds)
        /\ Len(summary.lines) = Cardinality(HandlerIds)
        /\ \A k \in DOMAIN summary.lines :
              /\ summary.lines[k][1] \in HandlerIds
              /\ summary.lines[k] = ClaimedEntry(summary.lines[k][1])
        /\ \A k \in 1..(Len(summary.lines) - 1) :
              summary.lines[k][1] < summary.lines[k + 1][1]

C11_TotalAssignment ==
    Assigned =>
        /\ \A i \in DOMAIN expanded_df : expanded_df[i].mbHandler >= 1
        /\ expanded_df[1].mbHandler = 1
        /\ \A i \in 1..(Len(expanded_df) - 1) :
              /\ expanded_df[i + 1].mbHandler >= expanded_df[i].mbHandler
              /\ expanded_df[i + 1].mbHandler <= expanded_df[i].mbHandler + 1
        /\ HandlerIds = 1..Cardinality(HandlerIds)

\* a scan that gave two rows one handler and started a second handler
C11_Witness ==
    /\ pc = "done"
    /\ Cardinality(HandlerIds) >= 2
    /\ \E i \in 1..(Len(expanded_df) - 1) :
          expanded_df[i + 1].mbHandler = expanded_df[i].mbHandler

\* process() has the base rows it returns
Returned == pc \in {"summary", "serialize", "done"}

\* a row whose used flag is absent, a number other than 0, or a text other than
\* 0, 0.0 and false
ClaimedUsed(row) ==
    LET u == row.mbUsed
    IN  /\ u # IntCell(0)
        /\ u.k = "str" =>
               lower(strip(u.s)) \notin {<<"0">>, <<"0",".","0">>, <<"f","a","l","s","e">>}

AddedColumns == {"mbTypeSize", "mbHandler", "mbHandlerOffset", "mbIdx"}

\* C12 as stated: the returned rows are the used input rows in input order, one
\* each whatever the multiplier, with the four added columns and every original
\* column unchanged.
C12_BaseRows_AsStated ==
    Returned =>
        LET used == SelectSeq(csv_rows, ClaimedUsed)
        IN  /\ Len(df) = Len(used)
            /\ \A i \in DOMAIN df :
                  /\ AddedColumns \subseteq DOMAIN df[i]
                  /\ \A c \in DOMAIN used[i] :
                        c \in DOMAIN df[i] /\ df[i][c] = used[i][c]

\* C12: the returned rows are the used input rows in input order, one each
\* whatever the multiplier, with the four added columns set and every original
\* column but mqttPayload unchanged; mqttPayload is not among their columns.
C12_BaseRows ==
    Returned =>
        LET used == SelectSeq(csv_rows, ClaimedUsed)
        IN  /\ Len(df) = Len(used)
            /\ \A i \in DOMAIN df :
                  /\ AddedColumns \subseteq DOMAIN df[i]
                  /\ df[i].mbHandler >= 1 /\ df[i].mbIdx >= 1
                  /\ "mqttPayload" \notin DOMAIN df[i]
                  /\ \A c \in DOMAIN used[i] \ {"mqttPayload"} :
                        c \in DOMAIN df[i] /\ df[i][c] = used[i][c]

\* a table with an unused row before a used, repeated one has been processed
C12_Witness ==
    /\ pc = "done"
    /\ Len(csv_rows) = 2 /\ Len(df) = 1
    /\ ~ClaimedUsed(csv_rows[1])
    /\ df[1].multiplier = IntCell(3)
    /\ notna(csv_rows[2].mqttPayload)

\* the expanded rows carry mbTypeSize
Annotated == pc \in {"sort", "assign", "scan"} \/ Assigned

\* the labels of the 16-bit integers, and of the 32-bit integers and the floats
Canonical16 == {<<"U","I","N","T","1","6">>, <<"I","N","T","1","6">>, <<"U","I","N","T">>}
Canonical32 == {<<"U","I","N","T","3","2">>, <<"I","N","T","3","2">>, <<"F","L","O","A","T">>}

\* the width the specification gives a present label
ClaimedWidth(label) ==
    LET s == upper(strip(label))
    IN  IF s \in Canonical16 THEN 16
        ELSE IF s \in Canonical32 THEN 32
        ELSE IF s # <<>> /\ IsDigit(s[Len(s)]) THEN DigitsToInt(TrailingDigits(s))
        ELSE 32

C14_PositiveWidth ==
    Annotated =>
        \A i \in DOMAIN expanded_df :
            expanded_df[i].mbTypeSize \in Nat \ {0}

\* C15: a row without a type label, its cell empty or the table without an
\* mbType column, gets the width 32.
C15_AbsentLabel ==
    /\ Annotated =>
          \A i \in DOMAIN expanded_df :
              ("mbType" \notin columns \/ expanded_df[i].mbType = <<>>) =>
                  expanded_df[i].mbTypeSize = 32
    /\ Returned =>
          \A i \in DOMAIN df :
              ("mbType" \notin columns \/ df[i].mbType = <<>>) =>
                  df[i].mbTypeSize = 32

\* C16: every record that has the key mbUsed has a boolean under it, never a
\* text or a number.
C16_UsedIsBoolean ==
    pc = "done" =>
        \A i \in DOMAIN records :
            "mbUsed" \in DOMAIN records[i] => records[i].mbUsed.t = "bool"

\* the fields the specification has written as floats
ClaimedFloatFields ==
    {"mqttLowerLimit", "mqttUpperLimit", "mbScaling", "mbOffset", "mqttScaling",
     "mqttOffset"}

ClaimedNumber(c, default) == IF c.k = "int" THEN c.v ELSE default

\* C18: expand_rows never raises; it takes a malformed multiplier for 1, a
\* malformed addressOffset for 0 and a malformed register for 0, so that a row
\* gives max(1, multiplier) rows at register + iteration * addressOffset.
C18_DefensiveDegradation ==
    [][Expand =>
          /\ pc' = "annotate"
          /\ \A i \in DOMAIN df :
                LET m == ClaimedNumber(df[i].multiplier, 1)
                    o == ClaimedNumber(df[i].addressOffset, 0)
                    reg == ClaimedNumber(df[i].mbRegister, 0)
                    E == {k \in DOMAIN expanded_df' :
                             expanded_df'[k].base_index = df[i].base_index}
                IN  /\ Cardinality(E) = Copies(m)
                    /\ \A k \in E :
                          expanded_df'[k].mbRegister =
                              IntCell(reg + (IF m > 1
                                             THEN expanded_df'[k].iteration * o
                                             ELSE 0))]_vars

\* C19: no run completes with a used row whose register is missing or no
\* number, whatever the multiplier of that row.
C19_AllOrNothing ==
    Returned =>
        \A i \in DOMAIN df : df[i].mbRegister.k = "int"

\* C20: no handler has more than 124 expanded rows.
C20_MemberCount ==
    Assigned =>
        \A h \in HandlerIds :
            Cardinality({i \in DOMAIN expanded_df : expanded_df[i].mbHandler = h}) <= 124

\* C21: no stage changes the row set it was handed: after expand_rows, the
\* width annotation, assign_mb_handler, the projection and the indexing, the
\* row set the stage received is as it was before the stage.
C21_NoInPlaceMutation ==
    [][/\ Expand => received' = df
       /\ Annotate => received' = expanded_df
       /\ (AssignBegin \/ AssignStep) => received' = expanded_df
       /\ Project => received' = df
       /\ Index => received' = df]_vars

Sorted == pc \in {"assign", "scan"} \/ Assigned

C24_NonNegativeOffset ==
    Projected =>
        \A i \in DOMAIN df :
            ClaimedNumber(df[i].addressOffset, 0) >= 0 =>
                /\ df[i].mbHandlerOffset >= 0
                /\ \A a, b \in DOMAIN expanded_df :
                      (/\ expanded_df[a].base_index = df[i].base_index
                       /\ expanded_df[b].base_index = df[i].base_index
                       /\ expanded_df[a].iteration = 0
                       /\ expanded_df[b].iteration = 1) =>
                          expanded_df[a].mbHandler <= expanded_df[b].mbHandler

\* a row repeated at one address, whose copies are in handlers 1 and 2, beside
\* a row repeated at addresses 5 apart
C24_Witness ==
    /\ pc = "done"
    /\ \E i \in DOMAIN df :
          /\ df[i].addressOffset = IntCell(0) /\ df[i].multiplier.v >= 2
          /\ df[i].mbHandlerOffset = 1
    /\ \E i \in DOMAIN df :
          /\ df[i].addressOffset = IntCell(5) /\ df[i].multiplier.v >= 2
          /\ df[i].mbHandlerOffset >= 1

\* the addresses start .. start + length - 1 the summary reports for handler h
ReportedRange(h) ==
    LET k == CHOOSE k \in DOMAIN summary.lines : summary.lines[k][1] = h
    IN  summary.lines[k][2]..(summary.lines[k][2] + summary.lines[k][3] - 1)

\* the reported ranges of the handlers of one function code are disjoint
DisjointHandlers ==
    \A a, b \in DOMAIN expanded_df :
        (/\ expanded_df[a].mbHandler # expanded_df[b].mbHandler
         /\ expanded_df[a].mbFunctionCode = expanded_df[b].mbFunctionCode) =>
            ReportedRange(expanded_df[a].mbHandler)
                \cap ReportedRange(expanded_df[b].mbHandler) = {}

\* the registers register .. register + mbTypeSize // 16 - 1 of an expanded row
RowRange(row) == row.mbRegister.v..(row.mbRegister.v + (row.mbTypeSize \div 16) - 1)

\* no two expanded rows of one function code have a register in common
DisjointRows ==
    \A a, b \in DOMAIN expanded_df :
        (a # b /\ expanded_df[a].mbFunctionCode = expanded_df[b].mbFunctionCode) =>
            RowRange(expanded_df[a]) \cap RowRange(expanded_df[b]) = {}

\* C25 as stated: the address ranges the summary reports for two handlers of
\* one function code are disjoint.
C25_NoOverlap_AsStated == pc = "done" => DisjointHandlers

\* C25: when no two expanded rows of one function code have a register in
\* common, the address ranges the summary reports for two handlers of one
\* function code are disjoint.
C25_NoOverlap == (pc = "done" /\ DisjointRows) => DisjointHandlers

\* a row of 123 registers filled handler 1 and the 16-bit row behind it began
\* handler 2
C25_Witness ==
    /\ pc = "done"
    /\ DisjointRows
    /\ summary.lines = <<(<<1, 0, 123>>), (<<2, 123, 1>>)>>

\* the sum of mbTypeSize // 16 over a sequence of expanded rows
RECURSIVE SumRegisters(_)
SumRegisters(rows) ==
    IF rows = <<>> THEN 0
    ELSE (Head(rows).mbTypeSize \div 16) + SumRegisters(Tail(rows))

HandlersOf(f) ==
    {expanded_df[i].mbHandler : i \in {k \in DOMAIN expanded_df :
                                          expanded_df[k].mbFunctionCode = f}}

PlanThenApply ==
    /\ edit_call.op # "none"
    /\ edit_call.prev.op = edit_call.op
    /\ edit_call.prev.row_id = edit_call.row_id
    /\ edit_call.prev.field_known = edit_call.field_known
    /\ edit_call.prev.value = edit_call.value
    /\ edit_call.prev.before = edit_call.before
    /\ ~edit_call.prev.apply
    /\ edit_call.apply

\* the identifiers of the rows of the file as it was before the call
IdsBefore == {strip(edit_call.before[i].id) : i \in DOMAIN edit_call.before}

\* C29: a call with apply=False leaves the CSV file as it was; when a call in
\* plan mode is followed by the same call with apply=True on the same file and
\* both return, they return the same planned changes; a set on a row id the
\* file does not have and an add of a row id it has raise, in either mode, and
\* leave the file as it was.
C29_PlanMode ==
    edit_call.op # "none" =>
        /\ ~edit_call.apply => csv_file = edit_call.before
        /\ (PlanThenApply /\ edit_call.outcome = "ok") =>
              /\ edit_call.prev.outcome = "ok"
              /\ edit_call.prev.planned = edit_call.planned
        /\ (edit_call.op = "set" /\ edit_call.row_id \notin IdsBefore) =>
              /\ edit_call.outcome = "ValueError"
              /\ csv_file = edit_call.before
        /\ (edit_call.op = "add" /\ edit_call.row_id \in IdsBefore) =>
              /\ edit_call.outcome = "ValueError"
              /\ csv_file = edit_call.before

\* a set that was planned and then applied: a change was planned both times
\* and the second call wrote the file
C29_Witness ==
    /\ PlanThenApply
    /\ edit_call.op = "set"
    /\ edit_call.outcome = "ok"
    /\ edit_call.planned # <<>>
    /\ edit_call.prev.planned = edit_call.planned
    /\ csv_file # edit_call.before

====
